---- MODULE Spec2Model ----
(***************************************************************************)
(* Page lifecycle of the puppeteer Renderer                                *)
(* (packages/puppeteer-renderer/src/lib/renderer.ts).                      *)
(*                                                                         *)
(* The source file holds two Renderer classes:                             *)
(*   "tryCatch"  lines 11-131 : html/pdf/screenshot each own a try/finally *)
(*                              and createPage has its own try/catch;      *)
(*   "withPage"  lines 177-271: html/pdf/screenshot delegate to withPage   *)
(*                              and createPage has no try/catch.           *)
(* impl says which class the Renderer under test is.  A render call is a   *)
(* coroutine: pc[c] names the engine operation the call is suspended on,   *)
(* and every action is the continuation that runs when that operation      *)
(* settles, up to the next await.                                          *)
(***************************************************************************)
EXTENDS Integers, Sequences, FiniteSets

\* ------------------------------------------------------------------ bounds
NumCalls == 2          \* render calls the client may issue
MaxAnimTimeout == 2    \* largest animationTimeout a request carries
MaxFaults == 2         \* engine failures injected in one run
MaxArgs == 2           \* longest args list a caller hands to create()

\* polling step of the Animation Settler, in the unit of animationTimeout
PollInterval == 2

Calls == 1..NumCalls
PageIds == 1..NumCalls
NoPage == 0            \* `undefined` in `let page: Page | undefined`
None == "none"         \* an option the caller left unset
NoReq == [op |-> None]
NoOutcome == <<"none", "none">>

Ok(v) == <<"ok", v>>
Err(e) == <<"err", e>>
IsErr(o) == o[1] = "err"
IsOk(o) == o[1] = "ok"

VARIABLES
  impl,      \* which Renderer class: "tryCatch" | "withPage"
  workload,  \* "single": one call, every option; "concurrent": several calls
  browser,   \* this.browser, the shared engine handle
  pc,        \* pc[c]: the await the call is suspended on
  req,       \* req[c]: the caller's options for the call
  page,      \* page[c]: `let page` of html/pdf/screenshot/withPage
  cpPage,    \* cpPage[c]: `page` local to createPage
  pending,   \* pending[c]: the return value / exception held across a close
  primary,   \* primary[c]: outcome of configuration, navigation, extraction
  result,    \* result[c]: what the caller's promise settled with
  ops,       \* ops[c]: engine operations the call invoked, <<name, page>>
  pages,     \* pages[p]: engine-side state of page p
  nextPage,  \* next page the engine hands out
  elapsed,   \* elapsed[c]: time the settler has spent polling
  pageErr,   \* pageErr[c]: the call's page emitted an 'error' event
  crashed,   \* an exception escaped to the host process
  life,      \* create()/close(): options, launch, process, data directory
  failed,    \* failed[c]: engine operations of the call that threw, in order
  faults,    \* engine failures injected so far (failed operations, page errors)
  log        \* log[c]: console.error entries written for the call

vars == <<impl, workload, browser, life, pc, req, page, cpPage, pending, primary,
          result, ops, pages, nextPage, elapsed, pageErr, crashed, failed,
          faults, log>>

\* ------------------------------------------------------------------ inputs
HeaderValues == {None, "wellFormed", "malformed"}
MediaTypes == {None, "screen", "print"}
AnimTimeouts == (0 - 1)..MaxAnimTimeout
ImageTypes == {"png", "jpeg"}      \* ScreenshotOptions.type: lossless, lossy
Qualities == {None, "80"}          \* ScreenshotOptions.quality

\* every request shape, for the workload of one call
FullRequests ==
  [op : {"html", "pdf"}, headers : HeaderValues, emulateMediaType : MediaTypes,
   credentials : BOOLEAN, animationTimeout : {0}, type : {None},
   quality : {None}]
  \cup
  [op : {"screenshot"}, headers : HeaderValues, emulateMediaType : MediaTypes,
   credentials : BOOLEAN, animationTimeout : AnimTimeouts, type : ImageTypes,
   quality : Qualities]

\* the concurrent workload: call 1 issues any of the three operations, the
\* calls running beside it are html renders
ConcRequests ==
  { [op |-> "html", headers |-> None, emulateMediaType |-> None,
     credentials |-> FALSE, animationTimeout |-> 0, type |-> None,
     quality |-> None],
    [op |-> "pdf", headers |-> None, emulateMediaType |-> None,
     credentials |-> FALSE, animationTimeout |-> 0, type |-> None,
     quality |-> None],
    [op |-> "screenshot", headers |-> None, emulateMediaType |-> None,
     credentials |-> FALSE, animationTimeout |-> 1, type |-> "png",
     quality |-> None] }

Requests(c) ==
  IF workload = "single" THEN FullRequests
  ELSE IF c = 1 THEN ConcRequests
  ELSE {r \in ConcRequests : r.op = "html"}

Outcomes == {"ok", "fail"}

\* ------------------------------------------------------------ engine model
FreshPage(c) ==
  [state |-> "open", creator |-> c, headers |-> FALSE, media |-> None,
   auth |-> FALSE, cacheEnabled |-> TRUE, navs |-> 0, staleNav |-> FALSE,
   viewport |-> FALSE, shot |-> None, navOptions |-> << >>, closeCalls |-> 0,
   users |-> {}]

NoPageYet ==
  [state |-> "none", creator |-> 0, headers |-> FALSE, media |-> None,
   auth |-> FALSE, cacheEnabled |-> TRUE, navs |-> 0, staleNav |-> FALSE,
   viewport |-> FALSE, shot |-> None, navOptions |-> << >>, closeCalls |-> 0,
   users |-> {}]

\* page.screenshot({ ...options,
\*                   quality: options.type === 'png' ? undefined : options.quality })
screenshotArgs(r) ==
  [type |-> r.type, quality |-> IF r.type = "png" THEN None ELSE r.quality]

\* const { credentials, emulateMediaType, headers, ...options } = pageOptions
CreatePageKeys == {"credentials", "emulateMediaType", "headers"}

\* the keys of CreatePageKeys the caller's pageOptions r carries
KeysOf(r) ==
  (IF r.credentials THEN {"credentials"} ELSE {}) \cup
  (IF r.emulateMediaType # None THEN {"emulateMediaType"} ELSE {}) \cup
  (IF r.headers # None THEN {"headers"} ELSE {})

\* the keys of CreatePageKeys in the options page.goto is called with:
\* createPage passes `options`, the rest of the destructuring; the html body
\* of the withPage class passes pageOptions itself
gotoOptions(r, label) == IF label = "body_goto" THEN KeysOf(r) ELSE {}

\* what invoking operation op on page p does to the engine before it settles;
\* label is the await the call suspends on
Invoked(pgs, c, label, op, p) ==
  IF p = NoPage THEN pgs
  ELSE [pgs EXCEPT ![p].users = @ \cup {c},
                   ![p].navOptions =
                      IF op = "goto" THEN Append(@, gotoOptions(req[c], label))
                      ELSE @,
                   ![p].shot = IF op = "screenshot" THEN screenshotArgs(req[c])
                               ELSE @,
                   ![p].closeCalls = IF op = "close" THEN @ + 1 ELSE @,
                   ![p].staleNav = IF op = "goto" THEN @ \/ pgs[p].cacheEnabled
                                   ELSE @]

\* what operation op on page p has done once it settled successfully
Settled(pgs, op, p, r) ==
  CASE op = "setExtraHTTPHeaders" -> [pgs EXCEPT ![p].headers = TRUE]
    [] op = "emulateMediaType" -> [pgs EXCEPT ![p].media = r.emulateMediaType]
    [] op = "authenticate" -> [pgs EXCEPT ![p].auth = TRUE]
    [] op = "setCacheEnabled" -> [pgs EXCEPT ![p].cacheEnabled = FALSE]
    [] op = "goto" -> [pgs EXCEPT ![p].navs = @ + 1]
    [] op = "setViewport" -> [pgs EXCEPT ![p].viewport = TRUE]
    [] op = "close" -> [pgs EXCEPT ![p].state = "closed"]
    [] OTHER -> pgs

\* faulty variant: `page` kept in a field of the Renderer instead of the call's
\* frame; every call then sees the page opened last
sharedPage(c) == IF nextPage > 1 THEN nextPage - 1 ELSE NoPage

\* the `page` variable of the frame of html/pdf/screenshot/withPage; every
\* call has a frame of its own
callerPage(c) == page[c]

\* ------------------------------------------------------- control transfer
\* The call settles: the caller's promise resolves or rejects with out.
Return(c, out, prim, pgs, fl, lg) ==
  /\ faults + Len(fl) - Len(failed[c]) <= MaxFaults
  /\ pc' = [pc EXCEPT ![c] = "done"]
  /\ result' = [result EXCEPT ![c] = out]
  /\ pending' = [pending EXCEPT ![c] = NoOutcome]
  /\ primary' = [primary EXCEPT ![c] = prim]
  /\ ops' = ops
  /\ pages' = pgs
  /\ failed' = [failed EXCEPT ![c] = fl]
  /\ faults' = faults + Len(fl) - Len(failed[c])
  /\ log' = [log EXCEPT ![c] = lg]

\* The call invokes engine operation op on page p and suspends at label.
Await(c, label, op, p, pend, prim, pgs, fl, lg) ==
  /\ faults + Len(fl) - Len(failed[c]) <= MaxFaults
  /\ pc' = [pc EXCEPT ![c] = label]
  /\ result' = result
  /\ pending' = [pending EXCEPT ![c] = pend]
  /\ primary' = [primary EXCEPT ![c] = prim]
  /\ ops' = [ops EXCEPT ![c] = Append(@, <<op, p>>)]
  /\ pages' = Invoked(pgs, c, label, op, p)
  /\ failed' = [failed EXCEPT ![c] = fl]
  /\ faults' = faults + Len(fl) - Len(failed[c])
  /\ log' = [log EXCEPT ![c] = lg]

\* `finally { await this.closePage(page) }` of html/pdf/screenshot/withPage,
\* entered with outcome out; p is the function's own `page`, chk is what
\* page.isClosed() does when it is reached ("ok" | "throw").
closePageFinally(c, p, out, chk, pgs, fl, lg) ==
  IF p = NoPage
  THEN chk = "ok" /\ Return(c, out, out, pgs, fl, lg)
  ELSE IF chk = "throw"
  THEN IF impl = "tryCatch"
       THEN Return(c, out, out, pgs, Append(fl, "isClosed"), lg)
       ELSE Return(c, Err("isClosed"), out, pgs, Append(fl, "isClosed"), lg)
  ELSE IF pgs[p].state # "open"
  THEN Return(c, out, out, pgs, fl, lg)
  ELSE Await(c, "finally_close", "close", p, out, out, pgs, fl, lg)

\* faulty variant: createPage without its catch block
createPageThrowsUnhandled(c, p, e, chk, pgs, fl, lg) ==
  chk = "ok" /\ closePageFinally(c, page[c], Err(e), "ok", pgs, fl, lg)

\* An exception e leaves createPage; p is createPage's own `page`.
\* tryCatch: catch (e) { console.error(e); await this.closePage(page); throw e }
\* withPage: no handler, e goes straight to withPage's finally.
createPageThrows(c, p, e, chk, pgs, fl, lg) ==
  IF impl = "tryCatch"
  THEN LET lg1 == Append(lg, <<"createPage.catch", e>>) IN
       IF p = NoPage
       THEN chk = "ok" /\ closePageFinally(c, callerPage(c), Err(e), "ok", pgs, fl, lg1)
       ELSE IF chk = "throw"
       THEN closePageFinally(c, callerPage(c), Err(e), "ok", pgs,
                             Append(fl, "isClosed"), lg1)
       ELSE IF pgs[p].state # "open"
       THEN closePageFinally(c, callerPage(c), Err(e), "ok", pgs, fl, lg1)
       ELSE Await(c, "catch_close", "close", p, Err(e), Err(e), pgs, fl, lg1)
  ELSE chk = "ok" /\ closePageFinally(c, callerPage(c), Err(e), "ok", pgs, fl, lg)

\* ------------------------------------------------------------ createPage
\* faulty variant: pdf() forcing 'print' over the caller's media type
createPageOptionsForcePrint(r) ==
  IF r.op = "pdf" THEN [r EXCEPT !.emulateMediaType = "print"] ELSE r

\* pdf(): { ...pageOptions, emulateMediaType: pageOptions.emulateMediaType || 'print' }
createPageOptions(r) ==
  IF r.op = "pdf" /\ r.emulateMediaType = None
  THEN [r EXCEPT !.emulateMediaType = "print"]
  ELSE r

Stage(op) ==
  CASE op = "newPage" -> 0
    [] op = "setExtraHTTPHeaders" -> 1
    [] op = "emulateMediaType" -> 2
    [] op = "authenticate" -> 3
    [] op = "setCacheEnabled" -> 4
    [] op = "goto" -> 5

\* faulty variant: createPage without `await page.setCacheEnabled(false)`
ConfigNextCacheLeftOn(o, s) ==
  IF s < 1 /\ o.headers # None THEN "setExtraHTTPHeaders"
  ELSE IF s < 2 /\ o.emulateMediaType # None THEN "emulateMediaType"
  ELSE IF s < 3 /\ o.credentials THEN "authenticate"
  ELSE "goto"

\* the next operation createPage awaits once the step of stage s is behind it
ConfigNext(o, s) ==
  IF s < 1 /\ o.headers # None THEN "setExtraHTTPHeaders"
  ELSE IF s < 2 /\ o.emulateMediaType # None THEN "emulateMediaType"
  ELSE IF s < 3 /\ o.credentials THEN "authenticate"
  ELSE IF s < 4 THEN "setCacheEnabled"
  ELSE "goto"

\* JSON.parse(headers) throws on a malformed string
JSONparseThrows(h) == h = "malformed"

\* createPage goes on after the operation of stage s settled successfully
createPageContinue(c, s, p, chk, pgs, fl, lg) ==
  LET o == createPageOptions(req[c])
      nxt == ConfigNext(o, s)
  IN IF nxt = "setExtraHTTPHeaders" /\ JSONparseThrows(o.headers)
     THEN createPageThrows(c, p, "JSON.parse", chk, pgs, fl, lg)
     ELSE chk = "ok" /\ Await(c, nxt, nxt, p, NoOutcome, NoOutcome, pgs, fl, lg)

\* ------------------------------------------------------------------ bodies
\* faulty variants: the guard of the settler off by one, either way
ShouldSettleAboveOne(r) == r.animationTimeout > 1
ShouldSettleFromZero(r) == r.animationTimeout >= 0

\* if (animationTimeout > 0) await waitForAnimations(...)
ShouldSettle(r) == r.animationTimeout > 0

\* first operation after `page = await this.createPage(...)`
BodyFirst(r) ==
  CASE r.op = "html" -> IF impl = "withPage" THEN "goto" ELSE "content"
    [] r.op = "pdf" -> "pdf"
    [] r.op = "screenshot" -> "setViewport"

\* operation following body operation op, or "return" when op's value is
\* the body's value
BodyNext(r, op) ==
  CASE op = "goto" -> "content"
    [] op = "setViewport" ->
         IF ShouldSettle(r) THEN "waitForAnimations" ELSE "screenshot"
    [] op = "waitForAnimations" -> "screenshot"
    [] OTHER -> "return"

BodyLabel(op) == IF op = "goto" THEN "body_goto" ELSE op

\* the value the body returns when op, its last operation, has resolved:
\* tryCatch screenshot returns { type: options.type, buffer }; every other
\* body returns what the engine operation resolved with
BodyValue(r, op) ==
  IF op = "screenshot" /\ impl = "tryCatch"
  THEN [type |-> r.type, buffer |-> op]
  ELSE [buffer |-> op]

\* the body goes on after body operation op settled with o on page p
bodyContinue(c, op, p, o, chk, pgs, fl, lg) ==
  IF o = "fail"
  THEN closePageFinally(c, p, Err(op), chk, pgs, Append(fl, op), lg)
  ELSE LET nxt == BodyNext(req[c], op) IN
       IF nxt = "return"
       THEN closePageFinally(c, p, Ok(BodyValue(req[c], op)), chk, pgs, fl, lg)
       ELSE chk = "ok" /\
            Await(c, BodyLabel(nxt), nxt, p, NoOutcome, NoOutcome, pgs, fl, lg)

\* ------------------------------------------------------ create() / close()
\* flags a caller may put in options.args: a neutral one, one that repeats a
\* fixed flag and one that conflicts with a fixed flag
CallerFlags == {"--window-size=800,600", "--no-sandbox", "--disk-cache-size=100"}

\* the flags create() adds, in the order of its statements
FixedFlags ==
  <<"--no-sandbox", "--disable-web-security", "--disable-dev-shm-usage",
    "--disk-cache-size=0", "--aggressive-cache-discard">>

\* options.headless as the caller passes it
HeadlessValues == {None, "false", "true"}

SeqsUpTo(S, n) == UNION {[1..k -> S] : k \in 0..n}

\* PuppeteerLaunchOptions of the caller; hasArgs = FALSE is `args` left out
LaunchOptions ==
  [hasArgs : {TRUE}, args : SeqsUpTo(CallerFlags, MaxArgs),
   headless : HeadlessValues]
  \cup
  [hasArgs : {FALSE}, args : {<< >>}, headless : HeadlessValues]

\* faulty variant: the fixed flags put in front of the caller's args
launchArgsFixedFirst(o) == FixedFlags \o (IF o.hasArgs THEN o.args ELSE << >>)

\* options.args once create() has added its flags
launchArgs(o) == (IF o.hasArgs THEN o.args ELSE << >>) \o FixedFlags

\* puppeteer.launch({ ...options, headless: 'new' | 'shell' })
launchHeadless(o) == IF impl = "tryCatch" THEN "new" ELSE "shell"

\* browser.process()?.spawnargs || []
SpawnArgs ==
  { << >>,
    <<"--headless", "--user-data-dir=tmp1">>,
    <<"--user-data-dir=tmp2", "--user-data-dir=tmp1">>,
    <<"--user-data-dir=">> }

\* arg.startsWith("--user-data-dir=")
startsWithUserDataDir(a) ==
  a \in {"--user-data-dir=", "--user-data-dir=tmp1", "--user-data-dir=tmp2"}

\* arg.replace("--user-data-dir=", "")
replaceUserDataDir(a) ==
  CASE a = "--user-data-dir=tmp1" -> "tmp1"
    [] a = "--user-data-dir=tmp2" -> "tmp2"
    [] a = "--user-data-dir=" -> ""
    [] OTHER -> a

\* the loop over chromeSpawnArgs: the first match is kept; None is null
RECURSIVE chromeTmpDataDirOf(_)
chromeTmpDataDirOf(sp) ==
  IF sp = << >> THEN None
  ELSE IF startsWithUserDataDir(Head(sp)) THEN replaceUserDataDir(Head(sp))
  ELSE chromeTmpDataDirOf(Tail(sp))

\* directories the engine process was started on
DirsOf(sp) ==
  {replaceUserDataDir(sp[i]) :
     i \in {j \in 1..Len(sp) : startsWithUserDataDir(sp[j])}} \ {""}

\* `if (this.chromeTmpDataDir)`: null and '' are falsy
Truthy(d) == d # None /\ d # ""

\* faulty variants of close(): the removal in a finally block; no removal
removeAfterCloseAlways(out, d) == Truthy(d)
removeAfterCloseNever(out, d) == FALSE

\* close(): fs.removeSync is reached when `await this.browser.close()` did
\* not throw and a directory was recorded; the withPage class records none
removeAfterClose(out, d) == out = "ok" /\ Truthy(d)

NoLaunch == [called |-> FALSE, args |-> << >>, headless |-> None]
NoOptions == [hasArgs |-> FALSE, args |-> << >>, headless |-> None]

\* before create() is called
NoLife ==
  [pc |-> "none", given |-> NoOptions, options |-> NoOptions,
   launched |-> NoLaunch, process |-> "none", spawnargs |-> << >>,
   chromeTmpDataDir |-> None, dirs |-> {}, removeSync |-> << >>,
   closeResult |-> NoOutcome]

\* after create({}) resolved, the state render calls run in
ReadyLife ==
  [NoLife EXCEPT !.pc = "ready",
                 !.options = [NoOptions EXCEPT !.hasArgs = TRUE,
                                               !.args = FixedFlags],
                 !.launched = [called |-> TRUE, args |-> FixedFlags,
                               headless |-> launchHeadless(NoOptions)],
                 !.process = "running"]

\* ----------------------------------------------------------------- actions
Init ==
  /\ impl \in {"tryCatch", "withPage"}
  /\ workload \in {"single"}
  /\ browser = [handle |-> "browser", connected |-> TRUE]
  /\ life = ReadyLife
  /\ pc = [c \in Calls |-> "idle"]
  /\ req = [c \in Calls |-> NoReq]
  /\ page = [c \in Calls |-> NoPage]
  /\ cpPage = [c \in Calls |-> NoPage]
  /\ pending = [c \in Calls |-> NoOutcome]
  /\ primary = [c \in Calls |-> NoOutcome]
  /\ result = [c \in Calls |-> NoOutcome]
  /\ ops = [c \in Calls |-> << >>]
  /\ pages = [p \in PageIds |-> NoPageYet]
  /\ nextPage = 1
  /\ elapsed = [c \in Calls |-> 0]
  /\ pageErr = [c \in Calls |-> FALSE]
  /\ crashed = FALSE
  /\ failed = [c \in Calls |-> << >>]
  /\ faults = 0
  /\ log = [c \in Calls |-> << >>]

InitConc ==
  /\ impl \in {"tryCatch", "withPage"}
  /\ workload = "concurrent"
  /\ browser = [handle |-> "browser", connected |-> TRUE]
  /\ life = ReadyLife
  /\ pc = [c \in Calls |-> "idle"]
  /\ req = [c \in Calls |-> NoReq]
  /\ page = [c \in Calls |-> NoPage]
  /\ cpPage = [c \in Calls |-> NoPage]
  /\ pending = [c \in Calls |-> NoOutcome]
  /\ primary = [c \in Calls |-> NoOutcome]
  /\ result = [c \in Calls |-> NoOutcome]
  /\ ops = [c \in Calls |-> << >>]
  /\ pages = [p \in PageIds |-> NoPageYet]
  /\ nextPage = 1
  /\ elapsed = [c \in Calls |-> 0]
  /\ pageErr = [c \in Calls |-> FALSE]
  /\ crashed = FALSE
  /\ failed = [c \in Calls |-> << >>]
  /\ faults = 0
  /\ log = [c \in Calls |-> << >>]

\* a public method is entered with request r: it calls createPage, which
\* awaits this.browser.newPage()
Enter(c, r) ==
  /\ ~crashed
  /\ pc[c] = "idle"
  /\ workload = "concurrent" \/ c = 1
  /\ r \in Requests(c)
  /\ req' = [req EXCEPT ![c] = r]
  /\ Await(c, "newPage", "newPage", NoPage, NoOutcome, NoOutcome, pages,
           failed[c], log[c])
  /\ UNCHANGED <<impl, workload, browser, life, page, cpPage, nextPage, elapsed,
                 pageErr, crashed>>

html(c) ==
  \E r \in Requests(c) : r.op = "html" /\ Enter(c, r)

pdf(c) ==
  \E r \in Requests(c) : r.op = "pdf" /\ Enter(c, r)

screenshot(c) ==
  \E r \in Requests(c) : r.op = "screenshot" /\ Enter(c, r)

\* this.browser.newPage() settles
newPageReturns(c, o, chk) ==
  /\ ~crashed
  /\ pc[c] = "newPage"
  /\ IF o = "ok"
     THEN LET p == nextPage
              pgs == [pages EXCEPT ![p] = FreshPage(c)]
          IN /\ p \in PageIds
             /\ cpPage' = [cpPage EXCEPT ![c] = p]
             /\ nextPage' = nextPage + 1
             /\ createPageContinue(c, 0, p, chk, pgs, failed[c], log[c])
     ELSE /\ UNCHANGED <<cpPage, nextPage>>
          /\ createPageThrows(c, cpPage[c], "newPage", chk, pages,
                              Append(failed[c], "newPage"), log[c])
  /\ UNCHANGED <<impl, workload, browser, life, req, page, elapsed, pageErr, crashed>>

\* a configuration step of createPage settles (op is not the last one, goto)
configReturns(c, op, o, chk) ==
  /\ ~crashed
  /\ pc[c] = op
  /\ LET p == cpPage[c] IN
     IF o = "ok"
     THEN createPageContinue(c, Stage(op), p, chk,
            Settled(pages, op, p, createPageOptions(req[c])), failed[c], log[c])
     ELSE createPageThrows(c, p, op, chk, pages, Append(failed[c], op), log[c])
  /\ UNCHANGED <<impl, workload, browser, life, req, page, cpPage, nextPage, elapsed,
                 pageErr, crashed>>

setExtraHTTPHeadersReturns(c, o, chk) ==
  configReturns(c, "setExtraHTTPHeaders", o, chk)

emulateMediaTypeReturns(c, o, chk) ==
  configReturns(c, "emulateMediaType", o, chk)

authenticateReturns(c, o, chk) ==
  configReturns(c, "authenticate", o, chk)

setCacheEnabledReturns(c, o, chk) ==
  configReturns(c, "setCacheEnabled", o, chk)

\* createPage's page.goto settles; on success createPage returns the page,
\* the caller stores it in its own `page` and starts its body
gotoReturns(c, o, chk) ==
  /\ ~crashed
  /\ pc[c] = "goto"
  /\ LET p == cpPage[c] IN
     IF o = "ok"
     THEN LET nxt == BodyFirst(req[c]) IN
          /\ chk = "ok"
          /\ page' = [page EXCEPT ![c] = p]
          /\ Await(c, BodyLabel(nxt), nxt, p, NoOutcome, NoOutcome,
                   Settled(pages, "goto", p, req[c]), failed[c], log[c])
     ELSE /\ page' = page
          /\ createPageThrows(c, p, "goto", chk, pages,
                              Append(failed[c], "goto"), log[c])
  /\ UNCHANGED <<impl, workload, browser, life, req, cpPage, nextPage, elapsed,
                 pageErr, crashed>>

\* an operation of the body settles
bodyReturns(c, label, op, o, chk) ==
  /\ ~crashed
  /\ pc[c] = label
  /\ LET p == callerPage(c) IN
     bodyContinue(c, op, p, o, chk,
       IF o = "ok" THEN Settled(pages, op, p, req[c]) ELSE pages,
       failed[c], log[c])
  /\ elapsed' = IF op = "setViewport" THEN [elapsed EXCEPT ![c] = 0] ELSE elapsed
  /\ UNCHANGED <<impl, workload, browser, life, req, page, cpPage, nextPage, pageErr,
                 crashed>>

\* withPage html body: await page.goto(url, pageOptions)
bodyGotoReturns(c, o, chk) == bodyReturns(c, "body_goto", "goto", o, chk)

contentReturns(c, o, chk) == bodyReturns(c, "content", "content", o, chk)

pdfReturns(c, o, chk) == bodyReturns(c, "pdf", "pdf", o, chk)

setViewportReturns(c, o, chk) ==
  bodyReturns(c, "setViewport", "setViewport", o, chk)

screenshotReturns(c, o, chk) ==
  bodyReturns(c, "screenshot", "screenshot", o, chk)

\* the settler finds animations still running before its deadline and
\* sleeps one polling interval
waitForAnimationsPoll(c) ==
  /\ ~crashed
  /\ pc[c] = "waitForAnimations"
  /\ elapsed[c] < req[c].animationTimeout
  /\ elapsed' = [elapsed EXCEPT ![c] = @ + PollInterval]
  /\ UNCHANGED <<impl, workload, browser, life, pc, req, page, cpPage, pending,
                 primary, result, ops, pages, nextPage, pageErr, crashed,
                 failed, faults, log>>

\* the settler returns: animations idle, or the deadline passed; or the
\* page query it polls with fails
waitForAnimationsReturns(c, o, chk) ==
  /\ bodyReturns(c, "waitForAnimations", "waitForAnimations", o, chk)

\* page.close() called from createPage's catch settles; then `throw e`
\* reaches the caller's finally
catchCloseReturns(c, o) ==
  /\ ~crashed
  /\ pc[c] = "catch_close"
  /\ LET p == cpPage[c]
         pgs == IF o = "ok" THEN Settled(pages, "close", p, req[c]) ELSE pages
         fl == IF o = "fail" THEN Append(failed[c], "close") ELSE failed[c]
     IN closePageFinally(c, callerPage(c), pending[c], "ok", pgs, fl, log[c])
  /\ UNCHANGED <<impl, workload, browser, life, req, page, cpPage, nextPage, elapsed,
                 pageErr, crashed>>

\* page.close() called from the finally block settles
\* tryCatch: catch (e) { /* ignore */ }
\* withPage: catch (e) { console.error('Failed to close page:', e) }
finallyCloseReturns(c, o) ==
  /\ ~crashed
  /\ pc[c] = "finally_close"
  /\ LET p == callerPage(c)
         pgs == IF o = "ok" THEN Settled(pages, "close", p, req[c]) ELSE pages
         lg == IF o = "fail" /\ impl = "withPage"
               THEN Append(log[c], <<"closePage", "close">>)
               ELSE log[c]
         fl == IF o = "fail" THEN Append(failed[c], "close") ELSE failed[c]
     IN Return(c, pending[c], primary[c], pgs, fl, lg)
  /\ UNCHANGED <<impl, workload, browser, life, req, page, cpPage, nextPage, elapsed,
                 pageErr, crashed>>

\* the page emits 'error' while the call is in flight; the listener
\*   tryCatch: (error) => { throw error }
\*   withPage: (error) => { console.error(error); throw error }
\* throws into the emitter's stack, not into the render call: the exception
\* is either dropped by the emitter or escapes as an uncaught exception
pageErrorEvent(c, how) ==
  /\ ~crashed
  /\ pc[c] \notin {"idle", "newPage", "done"}
  /\ cpPage[c] # NoPage
  /\ pages[cpPage[c]].state = "open"
  /\ ~pageErr[c]
  /\ faults < MaxFaults
  /\ faults' = faults + 1
  /\ pageErr' = [pageErr EXCEPT ![c] = TRUE]
  /\ log' = IF impl = "withPage"
            THEN [log EXCEPT ![c] = Append(@, <<"page.on", "pageError">>)]
            ELSE log
  /\ crashed' = (how = "uncaught")
  /\ UNCHANGED <<impl, workload, browser, life, pc, req, page, cpPage, pending,
                 primary, result, ops, pages, nextPage, elapsed, failed>>

Chk == {"ok", "throw"}

Next ==
  \E c \in Calls :
    \/ html(c)
    \/ pdf(c)
    \/ screenshot(c)
    \/ \E o \in Outcomes, chk \in Chk : newPageReturns(c, o, chk)
    \/ \E o \in Outcomes, chk \in Chk : setExtraHTTPHeadersReturns(c, o, chk)
    \/ \E o \in Outcomes, chk \in Chk : emulateMediaTypeReturns(c, o, chk)
    \/ \E o \in Outcomes, chk \in Chk : authenticateReturns(c, o, chk)
    \/ \E o \in Outcomes, chk \in Chk : setCacheEnabledReturns(c, o, chk)
    \/ \E o \in Outcomes, chk \in Chk : gotoReturns(c, o, chk)
    \/ \E o \in Outcomes, chk \in Chk : bodyGotoReturns(c, o, chk)
    \/ \E o \in Outcomes, chk \in Chk : contentReturns(c, o, chk)
    \/ \E o \in Outcomes, chk \in Chk : pdfReturns(c, o, chk)
    \/ \E o \in Outcomes, chk \in Chk : setViewportReturns(c, o, chk)
    \/ waitForAnimationsPoll(c)
    \/ \E o \in Outcomes, chk \in Chk : waitForAnimationsReturns(c, o, chk)
    \/ \E o \in Outcomes, chk \in Chk : screenshotReturns(c, o, chk)
    \/ \E o \in Outcomes : catchCloseReturns(c, o)
    \/ \E o \in Outcomes : finallyCloseReturns(c, o)
    \/ \E how \in {"dropped", "uncaught"} : pageErrorEvent(c, how)

Spec == Init /\ [][Next]_vars

SpecConc == InitConc /\ [][Next]_vars

\* every engine operation a call awaits eventually settles, one way or the
\* other
SpecLive == Init /\ [][Next]_vars /\ WF_vars(Next)

\* ------------------------------------------------- create() / close() steps
renderVars ==
  <<pc, req, page, cpPage, pending, primary, result, ops, pages, nextPage,
    elapsed, pageErr, crashed, failed, faults, log>>

InitBoot ==
  /\ impl \in {"tryCatch", "withPage"}
  /\ workload = "single"
  /\ browser = [handle |-> None, connected |-> FALSE]
  /\ life = NoLife
  /\ pc = [c \in Calls |-> "idle"]
  /\ req = [c \in Calls |-> NoReq]
  /\ page = [c \in Calls |-> NoPage]
  /\ cpPage = [c \in Calls |-> NoPage]
  /\ pending = [c \in Calls |-> NoOutcome]
  /\ primary = [c \in Calls |-> NoOutcome]
  /\ result = [c \in Calls |-> NoOutcome]
  /\ ops = [c \in Calls |-> << >>]
  /\ pages = [p \in PageIds |-> NoPageYet]
  /\ nextPage = 1
  /\ elapsed = [c \in Calls |-> 0]
  /\ pageErr = [c \in Calls |-> FALSE]
  /\ crashed = FALSE
  /\ failed = [c \in Calls |-> << >>]
  /\ faults = 0
  /\ log = [c \in Calls |-> << >>]

\* create(options): the flags are added to options.args and
\* puppeteer.launch is awaited
create(o) ==
  /\ life.pc = "none"
  /\ o \in LaunchOptions
  /\ life' = [life EXCEPT
                !.pc = "launching",
                !.given = o,
                !.options = [o EXCEPT !.hasArgs = TRUE, !.args = launchArgs(o)],
                !.launched = [called |-> TRUE, args |-> launchArgs(o),
                              headless |-> launchHeadless(o)]]
  /\ UNCHANGED <<impl, workload, browser, renderVars>>

\* puppeteer.launch settles; on success the tryCatch create() scans the
\* spawn args for the data directory and the Renderer is constructed
launchReturns(out, sp) ==
  /\ life.pc = "launching"
  /\ IF out = "fail"
     THEN /\ sp = << >>
          /\ life' = [life EXCEPT !.pc = "launchFailed"]
          /\ UNCHANGED browser
     ELSE /\ life' = [life EXCEPT
                        !.pc = "ready",
                        !.process = "running",
                        !.spawnargs = sp,
                        !.dirs = DirsOf(sp),
                        !.chromeTmpDataDir =
                           IF impl = "tryCatch" THEN chromeTmpDataDirOf(sp)
                           ELSE None]
          /\ browser' = [handle |-> "browser", connected |-> TRUE]
  /\ UNCHANGED <<impl, workload, renderVars>>

\* close(): this.browser.close() is awaited
close ==
  /\ life.pc = "ready"
  /\ life' = [life EXCEPT !.pc = "closing"]
  /\ UNCHANGED <<impl, workload, browser, renderVars>>

\* this.browser.close() settles with out and close() runs to its end;
\* cleans: the engine deleted the profile directory it had created itself,
\* rm: what fs.removeSync does if it is called
browserCloseReturns(out, cleans, rm) ==
  /\ life.pc = "closing"
  /\ LET d == life.chromeTmpDataDir
         removes == removeAfterClose(out, d)
         dirs1 == IF out = "ok" /\ cleans
                  THEN life.dirs \ DirsOf(life.spawnargs) ELSE life.dirs
     IN /\ out = "fail" => ~cleans
        /\ ~removes => rm = "ok"
        /\ life' = [life EXCEPT
                      !.pc = "closeReturned",
                      !.process = IF out = "ok" THEN "exited" ELSE @,
                      !.removeSync = IF removes THEN Append(@, d) ELSE @,
                      !.dirs = IF removes /\ rm = "ok" THEN dirs1 \ {d}
                               ELSE dirs1,
                      !.closeResult =
                         IF out = "fail" THEN Err("browser.close")
                         ELSE IF removes /\ rm = "throw" THEN Err("removeSync")
                         ELSE Ok("close")]
        /\ browser' = [browser EXCEPT !.connected = IF out = "ok" THEN FALSE
                                                    ELSE @]
  /\ UNCHANGED <<impl, workload, renderVars>>

NextBoot ==
  \/ \E o \in LaunchOptions : create(o)
  \/ \E out \in Outcomes, sp \in SpawnArgs : launchReturns(out, sp)
  \/ close
  \/ \E out \in Outcomes, cleans \in BOOLEAN, rm \in Chk :
       browserCloseReturns(out, cleans, rm)

SpecBoot == InitBoot /\ [][NextBoot]_vars

\* ------------------------------------------------------------- observers
Done(c) == pc[c] = "done"
OpNames(c) == [i \in 1..Len(ops[c]) |-> ops[c][i][1]]
OpPage(c, i) == ops[c][i][2]
Invokes(c, name) == \E i \in 1..Len(ops[c]) : ops[c][i][1] = name
Count(c, name) == Cardinality({i \in 1..Len(ops[c]) : ops[c][i][1] = name})
Opened(c) == {p \in PageIds : pages[p].state # "none" /\ pages[p].creator = c}
Threw(c, name) == \E i \in 1..Len(failed[c]) : failed[c][i] = name
\* the engine's own closed-check or close operation failed during teardown
TeardownFailed(c) == Threw(c, "close") \/ Threw(c, "isClosed")

ConfigOrder ==
  <<"newPage", "setExtraHTTPHeaders", "emulateMediaType", "authenticate",
    "setCacheEnabled", "goto">>
Rank(name) == CHOOSE i \in 1..Len(ConfigOrder) : ConfigOrder[i] = name
ConfigOps == {ConfigOrder[i] : i \in 1..Len(ConfigOrder)}
ExtractOps == {"content", "pdf", "setViewport", "waitForAnimations", "screenshot"}
FirstGoto(c) ==
  IF Invokes(c, "goto")
  THEN CHOOSE i \in 1..Len(ops[c]) :
         /\ ops[c][i][1] = "goto"
         /\ \A j \in 1..(i - 1) : ops[c][j][1] # "goto"
  ELSE 0

\* ------------------------------------------------------------------ claims

\* C1 (as claimed): in the withPage Renderer every page a call opened is
\* closed by the time the call returns, result or error (a page whose close
\* or closed-check the engine itself failed is not counted against it).
C1_NoPageLeak ==
  \A c \in Calls :
    (impl = "withPage" /\ Done(c)) =>
      \A p \in Opened(c) : pages[p].state = "closed" \/ TeardownFailed(c)

\* C2 (as claimed): in the tryCatch Renderer a page opened by newPage is
\* closed before the owning call returns, on every path (a page whose
\* closed-check threw is not counted against it).
C2_PageClosedOnReturn ==
  \A c \in Calls :
    (impl = "tryCatch" /\ Done(c)) =>
      \A p \in Opened(c) : pages[p].state = "closed" \/ Threw(c, "isClosed")

\* C2 (amended): in the tryCatch Renderer, when a call returns, page.close
\* has been invoked once on the page it opened and the page is closed,
\* unless that close itself failed (the failure is swallowed, the page stays
\* open) or the closed-check before it threw (close is then not invoked).
C2_PageClosedUnlessCloseFails ==
  \A c \in Calls :
    (impl = "tryCatch" /\ Done(c)) =>
      \A p \in Opened(c) :
        \/ pages[p].state = "closed"
        \/ Threw(c, "close") /\ pages[p].closeCalls = 1
        \/ Threw(c, "isClosed") /\ pages[p].closeCalls = 0

C2_Witness ==
  \E c \in Calls :
    /\ impl = "tryCatch" /\ Done(c)
    /\ result[c] = Err("goto")
    /\ Opened(c) # {}
    /\ \A p \in Opened(c) : pages[p].state = "closed"

\* C3 (as claimed): what a call returns is decided by configuration,
\* navigation and extraction alone; a failure of page.close or of the
\* closed-check during teardown never changes it and never reaches the caller.
C3_CloseNeverDecides ==
  \A c \in Calls :
    Done(c) => /\ result[c] = primary[c]
               /\ result[c] \notin {Err("close"), Err("isClosed")}

\* C4 (as claimed): a call invokes newPage once, page.close is invoked on
\* the page it opened exactly once, and the call touches no page of another
\* call (a page whose closed-check the engine failed is not counted).
C4_OnePageOneClose ==
  \A c \in Calls :
    /\ Count(c, "newPage") <= 1
    /\ \A i \in 1..Len(ops[c]) :
         OpPage(c, i) # NoPage => pages[OpPage(c, i)].creator = c
    /\ \A p \in Opened(c) : pages[p].closeCalls <= 1 /\ pages[p].users \subseteq {c}
    /\ Done(c) =>
         /\ Count(c, "newPage") = 1
         /\ \A p \in Opened(c) : pages[p].closeCalls = 1 \/ Threw(c, "isClosed")

\* C5: with several calls in flight, a step that moves one call leaves every
\* other call's frame, outcome and pages as they were; a page is closed only
\* by the close its creator awaited; a call's error is one of its own
\* operations' errors; the browser handle never changes.
CallState(c) ==
  <<pc[c], req[c], page[c], cpPage[c], pending[c], primary[c], result[c],
    ops[c], elapsed[c], failed[c], log[c], pageErr[c]>>
PagesOf(c) == [p \in PageIds |-> IF pages[p].creator = c THEN pages[p] ELSE NoPageYet]
OwnOutcome(c) ==
  Done(c) =>
    /\ IsErr(result[c]) => result[c][2] = "JSON.parse" \/ Threw(c, result[c][2])
    /\ IsOk(result[c]) =>
         \A i \in 1..Len(failed[c]) : failed[c][i] \in {"close", "isClosed"}
C5_Isolation ==
  /\ [](\A c \in Calls : OwnOutcome(c))
  /\ [][ /\ browser' = browser
         /\ \A c, d \in Calls :
              (c # d /\ CallState(c)' # CallState(c)) =>
                 /\ CallState(d)' = CallState(d)
                 /\ PagesOf(d)' = PagesOf(d)
         /\ \A p \in PageIds :
              (pages[p].state = "open" /\ pages'[p].state = "closed") =>
                 /\ pc[pages[p].creator] \in {"catch_close", "finally_close"}
                 /\ pc'[pages[p].creator] = "done" ]_vars

C5_Witness ==
  \E c, d \in Calls :
    /\ c # d
    /\ Done(c) /\ IsErr(result[c])
    /\ Done(d) /\ IsOk(result[d])
    /\ \A p \in Opened(d) : pages[p].state = "closed"

\* C6: within a call the configuration operations are invoked in the order
\* headers, media type, auth, cache-disable, navigate, each one only when its
\* option is supplied and only after the one before it took effect; goto is
\* never invoked with the cache enabled; extraction is invoked only on a
\* page whose navigation completed.
C6_ConfigOrder ==
  \A c \in Calls :
    LET n == OpNames(c)
        g == FirstGoto(c)
        lim == IF g = 0 THEN Len(n) ELSE g
        r == req[c]
        media == r.emulateMediaType # None \/ r.op = "pdf"
    IN /\ \A i, j \in 1..lim :
            (i < j /\ n[i] \in ConfigOps /\ n[j] \in ConfigOps) =>
               /\ Rank(n[i]) < Rank(n[j])
               /\ n[i] = "setExtraHTTPHeaders" => pages[OpPage(c, i)].headers
               /\ n[i] = "emulateMediaType" => pages[OpPage(c, i)].media # None
               /\ n[i] = "authenticate" => pages[OpPage(c, i)].auth
               /\ n[i] = "setCacheEnabled" => ~pages[OpPage(c, i)].cacheEnabled
       /\ Invokes(c, "setExtraHTTPHeaders") => r.headers # None
       /\ Invokes(c, "emulateMediaType") => media
       /\ Invokes(c, "authenticate") => r.credentials
       /\ Invokes(c, "setCacheEnabled") =>
            /\ r.headers # None => Invokes(c, "setExtraHTTPHeaders")
            /\ media => Invokes(c, "emulateMediaType")
            /\ r.credentials => Invokes(c, "authenticate")
       /\ g # 0 => /\ g > 1 /\ n[g - 1] = "setCacheEnabled"
                   /\ ~pages[OpPage(c, g)].staleNav
       /\ \A i \in 1..Len(n) :
            n[i] \in ExtractOps =>
               g # 0 /\ g < i /\ pages[OpPage(c, i)].navs >= 1

C6_Witness ==
  \E c \in Calls :
    /\ Done(c) /\ IsOk(result[c])
    /\ req[c].headers = "wellFormed" /\ req[c].credentials
    /\ req[c].emulateMediaType = "screen"
    /\ Invokes(c, "authenticate") /\ Invokes(c, "emulateMediaType")

\* C7 (as claimed): when the page emits 'error' while a call is in flight,
\* the error reaches the caller: the call does not return a result (stated
\* in its weakest form: the call fails, with whichever error).
C7_PageErrorRejects ==
  \A c \in Calls : (pageErr[c] /\ Done(c)) => IsErr(result[c])

\* C8 (as claimed): a failing call returns the original error unchanged,
\* after cleanup of its page was attempted, and repeats nothing: newPage at
\* most once, no operation again after it failed.
C8_OriginalErrorNoRetry ==
  \A c \in Calls :
    (Done(c) /\ IsErr(result[c])) =>
      /\ result[c] = primary[c]
      /\ \A p \in Opened(c) : pages[p].closeCalls >= 1 \/ Threw(c, "isClosed")
      /\ Count(c, "newPage") <= 1
      /\ LET last == CHOOSE k \in 1..Len(ops[c]) :
                       /\ ops[c][k][1] # "close"
                       /\ \A j \in (k + 1)..Len(ops[c]) : ops[c][j][1] = "close"
         IN ops[c][last][1] =
              IF primary[c] = Err("JSON.parse") THEN "newPage" ELSE primary[c][2]

C10_NoSettle ==
  \A c \in Calls :
    (req[c].op = "screenshot" /\ req[c].animationTimeout <= 0) =>
      LET n == OpNames(c) IN
      /\ ~Invokes(c, "waitForAnimations")
      /\ elapsed[c] = 0
      /\ \A i \in 1..Len(n) :
           n[i] = "screenshot" => i > 1 /\ n[i - 1] = "setViewport"
      /\ \A i \in 1..Len(n) :
           (n[i] = "setViewport" /\ pages[OpPage(c, i)].viewport) =>
              i < Len(n) /\ n[i + 1] = "screenshot"

C10_Witness ==
  \E c \in Calls :
    /\ req[c].op = "screenshot" /\ req[c].animationTimeout <= 0
    /\ Done(c) /\ IsOk(result[c])

\* C11: in a pdf call the media type the page carries when navigation starts
\* is 'print' if the caller left emulateMediaType unset and the caller's
\* value otherwise; the options the caller passed are never written.
C11_PdfMediaDefault ==
  /\ [](\A c \in Calls :
          (req[c].op = "pdf" /\ Invokes(c, "goto")) =>
             /\ Invokes(c, "emulateMediaType")
             /\ pages[OpPage(c, FirstGoto(c))].media =
                  IF req[c].emulateMediaType = None THEN "print"
                  ELSE req[c].emulateMediaType)
  /\ [][\A c \in Calls : req[c] # NoReq => req'[c] = req[c]]_vars

C11_Witness ==
  \E c \in Calls :
    /\ req[c].op = "pdf" /\ req[c].emulateMediaType = None
    /\ Done(c) /\ IsOk(result[c])
    /\ \A p \in Opened(c) : pages[p].media = "print"

\* C12: the capture of a screenshot call receives no quality when the
\* requested type is png and the caller's quality otherwise, and the value a
\* successful screenshot call returns carries the requested type.
ReturnedType(v) == IF "type" \in DOMAIN v THEN v.type ELSE None
C12_QualityAndReturnedType ==
  \A c \in Calls :
    req[c].op = "screenshot" =>
      /\ Invokes(c, "screenshot") =>
           /\ pages[page[c]].shot.type = req[c].type
           /\ pages[page[c]].shot.quality =
                IF req[c].type = "png" THEN None ELSE req[c].quality
      /\ (Done(c) /\ IsOk(result[c])) =>
           ReturnedType(result[c][2]) = req[c].type

\* C13: once close() has resolved, the engine process has exited and the
\* directory recorded by create(), if any, no longer exists.
C13_CloseRemovesDataDir ==
  (life.pc = "closeReturned" /\ IsOk(life.closeResult)) =>
    /\ life.process = "exited"
    /\ ~browser.connected
    /\ life.chromeTmpDataDir # None => life.chromeTmpDataDir \notin life.dirs

C13_Witness ==
  /\ impl = "tryCatch"
  /\ life.pc = "closeReturned" /\ IsOk(life.closeResult)
  /\ life.chromeTmpDataDir = "tmp2"
  /\ life.removeSync = <<"tmp2">>
  /\ "tmp1" \in life.dirs

\* C14: the args puppeteer.launch receives are the caller's args in their
\* order followed by the five fixed flags in their order, whether the caller
\* left args out, passed none or passed flags that repeat or contradict the
\* fixed ones; and the launch is headless whatever headless the caller set.
C14_LaunchArgs ==
  life.launched.called =>
    LET n == Len(life.given.args)
        a == life.launched.args
    IN /\ Len(a) = n + Len(FixedFlags)
       /\ SubSeq(a, 1, n) = life.given.args
       /\ SubSeq(a, n + 1, Len(a)) = FixedFlags
       /\ life.launched.headless \notin {None, "false"}

C14_Witness ==
  /\ life.launched.called
  /\ life.given.args = <<"--disk-cache-size=100", "--no-sandbox">>
  /\ life.given.headless = "false"
  /\ life.pc = "ready"

\* C15: the page of a call moves forward only through Idle, PageOpen,
\* Configured, Navigated, OutputExtracted, Closed, and every call that was
\* started eventually returns with each page it opened closed (a call whose
\* page the engine failed to close, or that died with the host process, is
\* not counted against it).
PhaseOf(c) ==
  IF Opened(c) = {} THEN 0
  ELSE LET p == CHOOSE q \in Opened(c) : TRUE IN
       IF pages[p].state = "closed" THEN 5
       ELSE IF IsOk(primary[c]) \/ IsOk(pending[c]) THEN 4
       ELSE IF pages[p].navs > 0 THEN 3
       ELSE IF ~pages[p].cacheEnabled THEN 2
       ELSE 1
C15_LifecycleReachesClosed ==
  /\ [][\A c \in Calls : PhaseOf(c)' >= PhaseOf(c)]_vars
  /\ \A c \in Calls :
       (pc[c] # "idle") ~>
          \/ crashed
          \/ /\ Done(c)
             /\ \A p \in Opened(c) : pages[p].state = "closed" \/ TeardownFailed(c)

\* C16: a call whose page.close failed during teardown has written a log
\* entry for that failure, and the error a failing call ends with is logged
\* at most once, never by the cleanup.
LogCount(c, e) == Cardinality({i \in 1..Len(log[c]) : log[c][i] = e})
C16_CloseFailureLogged ==
  \A c \in Calls :
    /\ (Done(c) /\ Threw(c, "close")) => LogCount(c, <<"closePage", "close">>) > 0
    /\ \A i \in 1..Len(log[c]) :
         log[c][i] # <<"closePage", "close">> => LogCount(c, log[c][i]) = 1

\* C17: a call that succeeded navigated its page exactly once, and every
\* navigation was given options without credentials, emulateMediaType and
\* headers; html calls included.
C17_SingleNavigation ==
  \A c \in Calls :
    (Done(c) /\ IsOk(result[c])) =>
      /\ Count(c, "goto") = 1
      /\ \A p \in Opened(c) :
           /\ pages[p].navs = 1
           /\ \A i \in 1..Len(pages[p].navOptions) : pages[p].navOptions[i] = {}

\* C18: close() calls fs.removeSync only once the engine's close has
\* succeeded; when the engine's close fails, close() rejects with that error
\* and the directories are as they were; with no directory recorded,
\* fs.removeSync is never called.
C18_RemoveOnlyAfterEngineClosed ==
  /\ life.removeSync # << >> =>
       /\ life.process = "exited"
       /\ life.removeSync = <<life.chromeTmpDataDir>>
  /\ (life.pc = "closeReturned" /\ life.process # "exited") =>
       /\ life.closeResult = Err("browser.close")
       /\ life.removeSync = << >>
       /\ life.dirs = DirsOf(life.spawnargs)
  /\ life.chromeTmpDataDir = None => life.removeSync = << >>

C18_Witness ==
  /\ impl = "tryCatch"
  /\ life.pc = "closeReturned"
  /\ life.closeResult = Err("browser.close")
  /\ life.chromeTmpDataDir = "tmp1"
  /\ "tmp1" \in life.dirs

====
